---- MODULE Spec2Model ----
(***************************************************************************)
(* Model of youtube_downolader.py: the batch runner                        *)
(* download_youtube_videos_from_file and the per-job pipeline              *)
(* download_from_youtube (wrapped by timing_decorator).                    *)
(*                                                                         *)
(* A Python str is a sequence of one-character strings; a Python list of   *)
(* str is a sequence of such sequences.  The variable url of the runner    *)
(* holds either a list (the result of split) or a str (after line 57), so  *)
(* it is a record [isList, v].                                             *)
(***************************************************************************)
EXTENDS Integers, Sequences, FiniteSets, TLC

\* ---------------------------------------------------------------- bounds
MaxLineLen == 5      \* characters of a line before its newline
MaxLines == 2        \* lines of the input file
MaxClock == 1        \* distinct seconds datetime.now() can report: 0..MaxClock
MaxOutLines == 1     \* lines the transcoder writes to its combined output
MaxFairLineLen == 3  \* characters of a line in the runs checked for termination
MaxStreams == 3      \* audio-only streams in the catalog of one video

\* ---------------------------------------------------------------- strings
\* "a" is the audio flag, "U" begins a valid URL, " " and "\t" are whitespace
Chars == {"a", "U", " ", "\t"}

NL == "\n"

LinesUpTo(m) == { s \o <<NL>> : s \in UNION { [1..n -> Chars] : n \in 0..m } }

Lines == LinesUpTo(MaxLineLen)

\* The shorter lines of the runs checked for termination
ShortLines == LinesUpTo(MaxFairLineLen)

\* str.strip() with no argument strips whitespace at both ends
IsSpace(c) == c \in {" ", "\t", NL}

RECURSIVE LStrip(_)
LStrip(s) == IF s # <<>> /\ IsSpace(Head(s)) THEN LStrip(Tail(s)) ELSE s

RECURSIVE RStrip(_)
RStrip(s) == IF s # <<>> /\ IsSpace(s[Len(s)]) THEN RStrip(SubSeq(s, 1, Len(s) - 1)) ELSE s

Strip(s) == RStrip(LStrip(s))

\* str.split(" "): cut at every single space, empty pieces kept, never an empty list
RECURSIVE Split(_)
Split(s) ==
    IF \E i \in 1..Len(s) : s[i] = " "
    THEN LET i == CHOOSE k \in 1..Len(s) : s[k] = " " /\ \A j \in 1..(k - 1) : s[j] # " "
         IN <<SubSeq(s, 1, i - 1)>> \o Split(SubSeq(s, i + 1, Len(s)))
    ELSE <<s>>

\* validators.url(s): truthy only for a well-formed absolute URL; here the
\* strings that begin with "U" and hold no whitespace
IsValidUrl(s) == /\ s # <<>>
                 /\ s[1] = "U"
                 /\ \A i \in 1..Len(s) : ~IsSpace(s[i])

\* repr() of a str: quoted, tab and newline escaped
RECURSIVE Escape(_)
Escape(s) ==
    IF s = <<>> THEN <<>>
    ELSE (CASE Head(s) = "\t" -> <<"\\", "t">>
            [] Head(s) = NL -> <<"\\", "n">>
            [] OTHER -> <<Head(s)>>) \o Escape(Tail(s))

Repr(s) == <<"'">> \o Escape(s) \o <<"'">>

RECURSIVE JoinRepr(_)
JoinRepr(l) ==
    IF l = <<>> THEN <<>>
    ELSE IF Len(l) = 1 THEN Repr(l[1])
    ELSE Repr(l[1]) \o <<",", " ">> \o JoinRepr(Tail(l))

\* str(url): a str is itself, a list is "[" + reprs joined by ", " + "]"
PyStr(u) == IF u.isList THEN <<"[">> \o JoinRepr(u.v) \o <<"]">> ELSE u.v

\* len(url) and url[0] for a list or a str
PyLen(u) == Len(u.v)

PyItem0(u) == IF u.isList THEN u.v[1] ELSE <<u.v[1]>>

\* ---------------------------------------------------------------- streams
\* The abr of an audio-only stream, as pytube reports it
Abrs == { <<"9", "6", "k", "b", "p", "s">>,
          <<"1", "6", "0", "k", "b", "p", "s">>,
          <<"1", "2", "8", "k", "b", "p", "s">> }

\* yt.streams.filter(only_audio=True): the audio-only streams, by their abr,
\* in the order the resolver lists them
Catalogs == UNION { [1..n -> Abrs] : n \in 0..MaxStreams }

\* yt.title
Titles == { <<"t", " ", "u">>, <<"t", "/", "u">> }

\* str.isdigit and int() of a digit
IsDigit(c) == c \in {"0", "1", "2", "3", "4", "5", "6", "7", "8", "9"}

DigitVal(c) ==
    CASE c = "0" -> 0 [] c = "1" -> 1 [] c = "2" -> 2 [] c = "3" -> 3 [] c = "4" -> 4
      [] c = "5" -> 5 [] c = "6" -> 6 [] c = "7" -> 7 [] c = "8" -> 8 [] c = "9" -> 9

\* ''.join(filter(str.isdigit, s))
Digits(s) == SelectSeq(s, IsDigit)

\* int() of a string of digits
RECURSIVE ToInt(_)
ToInt(ds) == IF ds = <<>> THEN 0 ELSE 10 * ToInt(SubSeq(ds, 1, Len(ds) - 1)) + DigitVal(ds[Len(ds)])

\* The key order_by sorts a string attribute by: the integer its digits spell
AbrKey(abr) == ToInt(Digits(abr))

\* sorted(streams, key=...): stable, ascending (insertion from the left)
RECURSIVE InsertSorted(_, _)
InsertSorted(q, x) ==
    IF q = <<>> THEN <<x>>
    ELSE IF AbrKey(q[Len(q)]) <= AbrKey(x) THEN Append(q, x)
    ELSE Append(InsertSorted(SubSeq(q, 1, Len(q) - 1), x), q[Len(q)])

RECURSIVE OrderByAbr(_)
OrderByAbr(q) ==
    IF q = <<>> THEN <<>>
    ELSE InsertSorted(OrderByAbr(SubSeq(q, 1, Len(q) - 1)), q[Len(q)])

\* desc() left out of the chain: the listing stays ascending
Desc_asc(q) == q

\* StreamQuery.desc(): the listing reversed
Desc(q) == [i \in 1..Len(q) |-> q[Len(q) + 1 - i]]

\* StreamQuery.first() yields None for an empty listing; None is the empty abr
None == <<>>

First(q) == IF q = <<>> THEN None ELSE q[1]

\* a guarded read, audio_stream.abr if audio_stream else '', raises nothing
Line94Raises_guarded(audio_stream) == FALSE

\* Line 94 reads audio_stream.abr: an AttributeError when audio_stream is None
Line94Raises(audio_stream) == audio_stream = None

\* Line 94: the digits of the abr followed by 'k'
AudioBitrate(audio_stream) == Digits(audio_stream) \o <<"k">>

\* ---------------------------------------------------------------- names
\* datetime.now().strftime(...): one string per second
Strftime(t) == ToString(t)

\* str.replace(old, new) for one-character old and new
Replace(s, old, new) == [i \in 1..Len(s) |-> IF s[i] = old THEN new ELSE s[i]]

\* Line 90
VideoTitle(title) == Replace(Replace(title, " ", "_"), "/", "_")

\* Line 91
OutputFilename(title, t, audio) ==
    VideoTitle(title) \o <<"_", Strftime(t), IF audio THEN ".mp3" ELSE ".mkv">>

\* Lines 95 and 102
AudioFilename(t) == <<"audio_", Strftime(t), ".mp4">>

VideoFilename(t) == <<"video_", Strftime(t), ".mp4">>

\* The caller's ffmpeg_path
FfmpegPath == <<"ffmpeg">>

\* the two inputs of the audio-and-video command in the wrong order
Command_swapped(audio, t, audio_bitrate, output_filename) ==
    IF audio
    THEN <<FfmpegPath, <<"-y">>, <<"-i">>, AudioFilename(t), <<"-b:a">>, audio_bitrate,
           output_filename>>
    ELSE <<FfmpegPath, <<"-y">>, <<"-i">>, AudioFilename(t), <<"-i">>, VideoFilename(t),
           <<"-c:v">>, <<"hevc_nvenc">>, <<"-preset">>, <<"fast">>, <<"-profile:v">>,
           <<"main">>, <<"-c:a">>, <<"aac">>, <<"-b:a">>, audio_bitrate, output_filename>>

\* Lines 107-111 and 119-121: the command, one sequence per argument
Command(audio, t, audio_bitrate, output_filename) ==
    IF audio
    THEN <<FfmpegPath, <<"-y">>, <<"-i">>, AudioFilename(t), <<"-b:a">>, audio_bitrate,
           output_filename>>
    ELSE <<FfmpegPath, <<"-y">>, <<"-i">>, VideoFilename(t), <<"-i">>, AudioFilename(t),
           <<"-c:v">>, <<"hevc_nvenc">>, <<"-preset">>, <<"fast">>, <<"-profile:v">>,
           <<"main">>, <<"-c:a">>, <<"aac">>, <<"-b:a">>, audio_bitrate, output_filename>>

\* ---------------------------------------------------------------- parsing
\* Lines 43-64 of download_youtube_videos_from_file: the fate of one line.
\* reject = a "Bad line" message was printed and the loop continued.
ParseLine(l) ==
    LET url0 == [isList |-> TRUE, v |-> Split(Strip(l))]
        two == PyLen(url0) = 2 /\ IsValidUrl(url0.v[2])
    IN  IF url0.v = <<>> THEN [reject |-> TRUE, url |-> url0, audio_only |-> FALSE]
        ELSE IF PyLen(url0) > 2 THEN [reject |-> TRUE, url |-> url0, audio_only |-> FALSE]
        ELSE IF two /\ url0.v[1] # <<"a">>
             THEN [reject |-> TRUE, url |-> url0, audio_only |-> FALSE]
        ELSE LET audio == two /\ url0.v[1] = <<"a">>
                 url1 == IF audio THEN [isList |-> FALSE, v |-> url0.v[2]] ELSE url0
             IN  IF PyLen(url1) = 1 /\ ~IsValidUrl(PyItem0(url1))
                 THEN [reject |-> TRUE, url |-> url1, audio_only |-> audio]
                 ELSE [reject |-> FALSE, url |-> url1, audio_only |-> audio]

\* ---------------------------------------------------------------- state
VARIABLES
    numLines,    \* lines of the input file
    idx,         \* lines read so far
    line,        \* the loop variable line
    url,         \* the runner's url
    audio_only,  \* the runner's audio_only
    pc,          \* position of the single thread
    call,        \* arguments of the running download_from_youtube call
    timestamp,   \* timestamp of the running call
    clock,       \* the second datetime.now() last reported
    disk,        \* temporary files on disk: [kind, ts, owner]
    proc,        \* the transcoder child process
    outcomes,    \* per line read: "Rejection", "Success" or "Failure"
    events,      \* what the current line has printed and done, in order
    yt,          \* the YouTube object of the running call and its audio listing
    job,         \* output_filename, audio_stream, audio_bitrate of the running call
    outputs      \* names of the final files on disk

\* the locals of the running call that most steps leave alone
locals == <<yt, job>>

vars == <<numLines, idx, line, url, audio_only, pc, call, timestamp, clock,
          disk, proc, outcomes, events, yt, job, outputs>>

NoCall == [url |-> <<>>, audio_only |-> FALSE]

NoProc == [state |-> "none", args |-> <<>>, total |-> 0, pending |-> 0,
           forwarded |-> <<>>, status |-> 0]

NoYt == [fetched |-> FALSE, listed |-> FALSE, audio |-> <<>>]

NoJob == [output_filename |-> <<>>, audio_stream |-> None, audio_bitrate |-> <<>>]

Init ==
    /\ numLines \in 0..MaxLines
    /\ idx = 0
    /\ line = <<>>
    /\ url = [isList |-> TRUE, v |-> <<>>]
    /\ audio_only = FALSE
    /\ pc = "loop"
    /\ call = NoCall
    /\ timestamp = 0
    /\ clock = 0
    /\ disk = {}
    /\ proc = NoProc
    /\ outcomes = <<>>
    /\ events = <<>>
    /\ yt = NoYt
    /\ job = NoJob
    /\ outputs = {}

\* ---------------------------------------------------------------- files
Last(q) == q[Len(q)]

\* download(filename=...) creates or overwrites the file of that name
WriteFile(d, kind, ts, owner) ==
    { f \in d : ~(f.kind = kind /\ f.ts = ts) } \cup {[kind |-> kind, ts |-> ts, owner |-> owner]}

FileExists(d, kind, ts) == \E f \in d : f.kind = kind /\ f.ts = ts

\* os.remove(name) that removes nothing
RemoveFile_keep(d, kind, ts) == d

\* os.remove(name)
RemoveFile(d, kind, ts) == { f \in d : ~(f.kind = kind /\ f.ts = ts) }

\* ---------------------------------------------------------------- errors
\* What the steps of a job raise; every one is a subclass of Exception.
Exceptions == {"ResolutionError", "AttributeError", "DownloadError", "OSError"}

\* except OSError in place of except Exception
Catches_OSError(e) == e = "OSError"

\* except Exception (line 68): the classes the handler catches
Catches(e) == e \in Exceptions

\* An exception e leaves download_from_youtube: the wrapper of
\* timing_decorator prints nothing (line 22 is skipped), the handler of the
\* runner prints e and the loop goes on; an exception the handler does not
\* catch ends the run.
\* printed is what the failing step printed before it raised.
RaiseAfter(printed, e) ==
    /\ call' = NoCall
    /\ proc' = NoProc
    /\ IF Catches(e)
       THEN /\ pc' = "next"
            /\ events' = Append(events \o printed, e)
            /\ outcomes' = Append(outcomes, "Failure")
       ELSE /\ pc' = "crashed"
            /\ events' = events \o printed
            /\ UNCHANGED outcomes

Raise(e) == RaiseAfter(<<>>, e)

\* ---------------------------------------------------------------- runner
\* break in place of continue: the loop ends at the first bad line
Continue_break == "done"

\* continue (lines 48, 52, 60, 64): on to the next line of the file
Continue == "next"

\* Lines 42-67 and 86: read the next line and parse it; a line that is not
\* rejected is handed to download_from_youtube as str(url) and audio_only,
\* which prints its url.  After a continue line, url and audio_only are
\* assigned again before they are read, so the model forgets them at once.
ReadLineFrom(file_lines) ==
    /\ pc = "loop"
    /\ idx < numLines
    /\ \E l \in file_lines :
         LET p == ParseLine(l)
         IN  /\ idx' = idx + 1
             /\ IF p.reject
                THEN /\ pc' = Continue
                     /\ line' = <<>>
                     /\ url' = [isList |-> TRUE, v |-> <<>>]
                     /\ audio_only' = FALSE
                     /\ events' = <<"Bad line">>
                     /\ outcomes' = Append(outcomes, "Rejection")
                     /\ UNCHANGED call
                ELSE /\ pc' = "resolve"
                     /\ line' = l
                     /\ url' = p.url
                     /\ audio_only' = p.audio_only
                     /\ call' = [url |-> PyStr(p.url), audio_only |-> p.audio_only]
                     /\ events' = <<"call">>
                     /\ UNCHANGED outcomes
    /\ UNCHANGED <<numLines, timestamp, clock, disk, proc, locals, outputs>>

ReadLine == ReadLineFrom(Lines)

ReadShortLine == ReadLineFrom(ShortLines)

\* Line 42, after a continue, a handled exception or a return: control is back
\* at the for statement.  line, url, audio_only (lines 42, 45, 43) and the
\* locals of the finished call are assigned before they are read again, so
\* the model forgets them here.
NextIteration ==
    /\ pc = "next"
    /\ pc' = "loop"
    /\ line' = <<>>
    /\ url' = [isList |-> TRUE, v |-> <<>>]
    /\ audio_only' = FALSE
    /\ call' = NoCall
    /\ timestamp' = 0
    /\ proc' = NoProc
    /\ events' = <<>>
    /\ yt' = NoYt
    /\ job' = NoJob
    /\ UNCHANGED <<numLines, idx, clock, disk, outcomes, outputs>>

\* Line 41-42: the file is exhausted
EndOfFile ==
    /\ pc = "loop"
    /\ idx = numLines
    /\ pc' = "done"
    /\ UNCHANGED <<numLines, idx, line, url, audio_only, call, timestamp, clock,
                   disk, proc, outcomes, events, locals, outputs>>

\* Lines 87-91: the timestamp of this second, YouTube(url), the title and the
\* output name.  url is read for the last time on line 88, line on line 45
\* and the title on line 91, so the model keeps none of the three.
Resolve ==
    /\ pc = "resolve"
    /\ line' = <<>>
    /\ url' = [isList |-> TRUE, v |-> <<>>]
    /\ \E t \in clock..MaxClock :
         /\ clock' = t
         /\ timestamp' = t
    /\ \E reachable \in BOOLEAN, title \in Titles :
         IF ~reachable
         THEN /\ UNCHANGED locals
              /\ Raise("ResolutionError")
         ELSE /\ yt' = [NoYt EXCEPT !.fetched = TRUE]
              /\ job' = [NoJob EXCEPT
                           !.output_filename = OutputFilename(title, timestamp', audio_only)]
              /\ pc' = "select"
              /\ call' = [call EXCEPT !.url = <<>>]
              /\ UNCHANGED <<proc, outcomes, events>>
    /\ UNCHANGED <<numLines, idx, audio_only, disk, outputs>>

\* Lines 93-94: the audio streams of the video, the first of them by
\* descending abr, and its bitrate
Select ==
    /\ pc = "select"
    /\ \E streams \in Catalogs :
         LET audio_stream == First(Desc(OrderByAbr(streams)))
         IN  /\ yt' = [yt EXCEPT !.listed = TRUE, !.audio = streams]
             /\ IF Line94Raises(audio_stream)
                THEN /\ UNCHANGED job
                     /\ Raise("AttributeError")
                ELSE /\ job' = [job EXCEPT !.audio_stream = audio_stream,
                                           !.audio_bitrate = AudioBitrate(audio_stream)]
                     /\ pc' = "dl_audio"
                     /\ events' = Append(events, "resolved")
                     /\ UNCHANGED <<call, proc, outcomes>>
    /\ UNCHANGED <<numLines, idx, line, url, audio_only, timestamp, clock, disk, outputs>>

\* a retry loop around the audio download: a failed attempt is tried again
DownloadAudio_retry ==
    /\ pc = "dl_audio"
    /\ \E ok \in BOOLEAN :
         IF ok
         THEN /\ disk' = WriteFile(disk, "audio", timestamp, idx)
              /\ pc' = "dl_video"
              /\ events' = events \o <<"audio start", "audio done">>
         ELSE /\ events' = Append(events, "audio start")
              /\ UNCHANGED <<disk, pc>>
    /\ UNCHANGED <<numLines, idx, line, url, audio_only, timestamp, clock, call, proc,
                   outcomes, locals, outputs>>

\* Lines 95-98: download the audio stream to audio_<timestamp>.mp4.  The
\* audio listing is not read after line 94, and the video listing is drawn
\* where line 101 reads it, so the model forgets yt here.
DownloadAudio ==
    /\ pc = "dl_audio"
    /\ yt' = NoYt
    /\ \E ok \in BOOLEAN, partial \in BOOLEAN :
         IF job.audio_stream = None
         THEN /\ ok /\ partial
              /\ UNCHANGED disk
              /\ RaiseAfter(<<"audio start">>, "AttributeError")
         ELSE IF ok
         THEN /\ partial
              /\ disk' = WriteFile(disk, "audio", timestamp, idx)
              /\ pc' = "dl_video"
              /\ events' = events \o <<"audio start", "audio done">>
              /\ UNCHANGED <<call, proc, outcomes>>
         ELSE /\ disk' = IF partial THEN WriteFile(disk, "audio", timestamp, idx) ELSE disk
              /\ RaiseAfter(<<"audio start">>, "DownloadError")
    /\ UNCHANGED <<numLines, idx, line, url, audio_only, timestamp, clock, job, outputs>>

\* if audio_only in place of if not audio_only on line 100 for an audio-and-
\* video job: the video download is skipped
DownloadVideo_skip ==
    /\ pc = "dl_video"
    /\ pc' = "spawn"
    /\ UNCHANGED <<numLines, idx, line, url, audio_only, call, timestamp, clock, disk,
                   proc, outcomes, events, locals, outputs>>

\* Lines 100-105: unless audio_only, the best video stream to video_<timestamp>.mp4
DownloadVideo ==
    /\ pc = "dl_video"
    /\ IF call.audio_only
       THEN /\ pc' = "spawn"
            /\ UNCHANGED <<call, proc, outcomes, events, disk>>
       ELSE \E r \in {"ok", "no_video", "error"}, partial \in BOOLEAN :
              CASE r = "ok" ->
                     /\ partial
                     /\ disk' = WriteFile(disk, "video", timestamp, idx)
                     /\ pc' = "spawn"
                     /\ events' = events \o <<"video start", "video done">>
                     /\ UNCHANGED <<call, proc, outcomes>>
                [] r = "no_video" ->
                     /\ partial
                     /\ UNCHANGED disk
                     /\ RaiseAfter(<<"video start">>, "AttributeError")
                [] OTHER ->
                     /\ disk' = IF partial THEN WriteFile(disk, "video", timestamp, idx) ELSE disk
                     /\ RaiseAfter(<<"video start">>, "DownloadError")
    /\ UNCHANGED <<numLines, idx, line, url, audio_only, timestamp, clock, locals, outputs>>

\* a failed spawn that removes the inputs before the error leaves the call
Spawn_cleanup ==
    /\ pc = "spawn"
    /\ \E ok \in BOOLEAN, n \in 0..MaxOutLines :
         IF ok
         THEN /\ proc' = [state |-> "running",
                          args |-> Command(call.audio_only, timestamp, job.audio_bitrate,
                                           job.output_filename),
                          total |-> n, pending |-> n, forwarded |-> <<>>, status |-> 0]
              /\ pc' = "read"
              /\ events' = Append(events, "spawn")
              /\ UNCHANGED <<call, outcomes, disk>>
         ELSE /\ n = 0
              /\ disk' = RemoveFile(RemoveFile(disk, "video", timestamp), "audio", timestamp)
              /\ Raise("OSError")
    /\ UNCHANGED <<numLines, idx, line, url, audio_only, timestamp, clock, locals, outputs>>

\* Lines 107-113 and 119-123: build the command and spawn the transcoder
Spawn ==
    /\ pc = "spawn"
    /\ \E ok \in BOOLEAN, n \in 0..MaxOutLines :
         IF ok
         THEN /\ proc' = [state |-> "running",
                          args |-> Command(call.audio_only, timestamp, job.audio_bitrate,
                                           job.output_filename),
                          total |-> n, pending |-> n, forwarded |-> <<>>, status |-> 0]
              /\ pc' = "read"
              /\ events' = Append(events, "spawn")
              /\ UNCHANGED <<call, outcomes>>
         ELSE /\ n = 0
              /\ Raise("OSError")
    /\ UNCHANGED <<numLines, idx, line, url, audio_only, timestamp, clock, disk, locals,
                   outputs>>

\* Lines 114-115 and 124-125: forward the oldest line of the combined output
\* that has not been forwarded; the lines are numbered 1..total as written
ForwardLine ==
    /\ pc = "read"
    /\ proc.pending > 0
    /\ proc' = [proc EXCEPT !.pending = @ - 1,
                            !.forwarded = Append(@, proc.total - proc.pending + 1)]
    /\ events' = Append(events, "ffmpeg line")
    /\ UNCHANGED <<numLines, idx, line, url, audio_only, pc, call, timestamp, clock,
                   disk, outcomes, locals, outputs>>

\* The exit status of the transcoder, which the code never reads
ExitStatuses == {0, 1}

\* ffmpeg -y writes its last argument, replacing a file of that name
WriteOutput(o, name) == o \cup {name}

\* process.wait() in place of the loop over process.stdout: the output still
\* in the pipe is never forwarded
EndOfOutput_early ==
    /\ pc = "read"
    /\ \E s \in ExitStatuses, wrote \in BOOLEAN :
         /\ s = 0 => wrote
         /\ proc' = [proc EXCEPT !.state = "exited", !.status = s]
         /\ outputs' = IF wrote THEN WriteOutput(outputs, Last(proc.args)) ELSE outputs
    /\ pc' = IF call.audio_only THEN "rm_audio" ELSE "rm_video"
    /\ UNCHANGED <<numLines, idx, line, url, audio_only, call, timestamp, clock,
                   disk, outcomes, events, locals>>

\* The transcoder closes its output and exits; the loop over stdout ends.
\* With status 0 the output file has been written; with another status it
\* may or may not have been.
EndOfOutput ==
    /\ pc = "read"
    /\ proc.pending = 0
    /\ \E s \in ExitStatuses, wrote \in BOOLEAN :
         /\ s = 0 => wrote
         /\ proc' = [proc EXCEPT !.state = "exited", !.status = s]
         /\ outputs' = IF wrote THEN WriteOutput(outputs, Last(proc.args)) ELSE outputs
    /\ pc' = IF call.audio_only THEN "rm_audio" ELSE "rm_video"
    /\ UNCHANGED <<numLines, idx, line, url, audio_only, call, timestamp, clock,
                   disk, outcomes, events, locals>>

\* line 117 left out: the video input is never removed
RemoveVideo_skip ==
    /\ pc = "rm_video"
    /\ pc' = "rm_audio"
    /\ UNCHANGED <<numLines, idx, line, url, audio_only, call, timestamp, clock, disk,
                   proc, outcomes, events, locals, outputs>>

\* Line 117: os.remove(video_filename)
RemoveVideo ==
    /\ pc = "rm_video"
    /\ IF FileExists(disk, "video", timestamp)
       THEN /\ disk' = RemoveFile(disk, "video", timestamp)
            /\ pc' = "rm_audio"
            /\ events' = Append(events, "remove video")
            /\ UNCHANGED <<call, proc, outcomes>>
       ELSE /\ UNCHANGED disk
            /\ Raise("OSError")
    /\ UNCHANGED <<numLines, idx, line, url, audio_only, timestamp, clock, locals, outputs>>

\* Line 127, then lines 22-23 of the wrapper: os.remove(audio_filename), the
\* process time is printed and the call returns to the loop
RemoveAudio ==
    /\ pc = "rm_audio"
    /\ IF FileExists(disk, "audio", timestamp)
       THEN /\ disk' = RemoveFile(disk, "audio", timestamp)
            /\ pc' = "next"
            /\ events' = events \o <<"remove audio", "Process time">>
            /\ outcomes' = Append(outcomes, "Success")
            /\ call' = NoCall
            /\ UNCHANGED proc
       ELSE /\ UNCHANGED disk
            /\ Raise("OSError")
    /\ UNCHANGED <<numLines, idx, line, url, audio_only, timestamp, clock, locals, outputs>>

\* The steps that follow the reading of a line
JobNext ==
    \/ NextIteration
    \/ EndOfFile
    \/ Resolve
    \/ Select
    \/ DownloadAudio
    \/ DownloadVideo
    \/ Spawn
    \/ ForwardLine
    \/ EndOfOutput
    \/ RemoveVideo
    \/ RemoveAudio

Next == ReadLine \/ JobNext

Spec == Init /\ [][Next]_vars

\* The same program over the shorter lines, with the fairness of a running
\* thread: every external step returns or raises, and the thread goes on.
FairNext == ReadShortLine \/ JobNext

FairSpec == Init /\ [][FairNext]_vars /\ WF_vars(FairNext)

\* ================================================================ claims
InEvents(e) == \E i \in 1..Len(events) : events[i] = e

\* Positions of the thread inside download_from_youtube
JobPcs == {"resolve", "select", "dl_audio", "dl_video", "spawn", "read", "rm_video", "rm_audio"}

\* The spec's tokens (4.1 rule 1): the maximal runs of non-whitespace
RECURSIVE WsTokens(_)
WsTokens(s) ==
    LET t == LStrip(s)
    IN  IF t = <<>> THEN <<>>
        ELSE LET n == IF \E i \in 1..Len(t) : IsSpace(t[i])
                      THEN (CHOOSE k \in 1..Len(t) :
                              IsSpace(t[k]) /\ \A j \in 1..(k - 1) : ~IsSpace(t[j])) - 1
                      ELSE Len(t)
             IN  <<SubSeq(t, 1, n)>> \o WsTokens(SubSeq(t, n + 1, Len(t)))

\* A rejected line is forgotten when it is rejected, so a state that holds a
\* line holds one that was handed to the pipeline
Dispatched == line # <<>> /\ pc \in JobPcs

\* C1: an error raised by the resolve, download or transcode step of a job
\* never escapes the runner: it is caught at the per-job boundary, logged, the
\* line is recorded as a Failure, and the loop can go on to the next line.
C1_FailureIsolation ==
    /\ pc # "crashed"
    /\ (pc = "next" /\ events # <<>> /\ Last(events) \in Exceptions)
          => /\ Last(outcomes) = "Failure"
             /\ Len(outcomes) = idx
             /\ ENABLED NextIteration
    /\ (pc = "loop" /\ idx < numLines) => ENABLED ReadLine

\* a second line is dispatched after the first line's job failed
C1_Witness ==
    /\ pc = "resolve"
    /\ idx = 2
    /\ outcomes = <<"Failure">>

\* C2: under fairness the run reaches the end of the input file, and whenever
\* the thread is between lines, and at the end, every line read has produced
\* exactly one of Rejection, Success, Failure.
C2_BatchCompletes ==
    /\ <>(pc = "done")
    /\ [](pc \in {"loop", "next", "done"} =>
            /\ Len(outcomes) = idx
            /\ \A i \in 1..Len(outcomes) : outcomes[i] \in {"Rejection", "Success", "Failure"})
    /\ [](pc = "done" => Len(outcomes) = numLines)

\* a finished run of a malformed line followed by a successful job
C2_Witness ==
    /\ pc = "done"
    /\ numLines = 2
    /\ outcomes = <<"Rejection", "Success">>

\* C3: a two-token line that is not "a" followed by a valid URL is rejected
\* and no step of the pipeline is invoked for it.
C3_TwoTokenRejected ==
    LET toks == WsTokens(line)
    IN  (/\ Len(toks) = 2
         /\ ~(toks[1] = <<"a">> /\ IsValidUrl(toks[2])))
          => ~Dispatched

\* C4: for a one-token line whose token is a valid URL the job handed to the
\* pipeline has url equal to that token and audioOnly = false.
C4_OneTokenJob ==
    LET toks == WsTokens(line)
    IN  (pc = "resolve" /\ Len(toks) = 1 /\ IsValidUrl(toks[1]))
          => (call.url = toks[1] /\ call.audio_only = FALSE)

\* C5: for a two-token line "a" + valid URL the job handed to the pipeline
\* has audioOnly = true and url equal to the second token.
C5_AudioJob ==
    LET toks == WsTokens(line)
    IN  (pc = "resolve" /\ Len(toks) = 2 /\ toks[1] = <<"a">> /\ IsValidUrl(toks[2]))
          => (call.url = toks[2] /\ call.audio_only = TRUE)

\* C6: a line with zero tokens or more than two tokens is rejected and no
\* step of the pipeline is invoked for it.
C6_TokenCountRejected ==
    LET toks == WsTokens(line)
    IN  (Len(toks) = 0 \/ Len(toks) > 2) => ~Dispatched

\* C7: a job whose transcoder exited with a non-zero status is recorded as a
\* Failure, never as a Success.
C7_NonZeroExitFails ==
    (pc = "next" /\ proc.state = "exited" /\ proc.status # 0)
      => Last(outcomes) = "Failure"

\* C8: a MuxAV job has deleted no temporary input while its transcoder
\* exited non-zero.
C8_DeleteOnlyAfterZeroExit ==
    ~(/\ ~audio_only
      /\ proc.state = "exited"
      /\ proc.status # 0
      /\ (InEvents("remove video") \/ InEvents("remove audio")))

\* C9: at the end of a transcode step that ran the transcoder the job's audio
\* temporary file is gone in either mode; a video temporary file is deleted
\* only in MuxAV mode; an audio-only job never creates or deletes a video
\* temporary file.
C9_AtEnd ==
    /\ (pc = "next" /\ InEvents("spawn"))
          => /\ ~FileExists(disk, "audio", timestamp)
             /\ InEvents("remove audio")
             /\ (~audio_only => ~FileExists(disk, "video", timestamp))
    /\ InEvents("remove video") => ~audio_only

C9_AudioOnlyStep ==
    (audio_only /\ pc \in JobPcs)
      => { f \in disk' : f.kind = "video" } = { f \in disk : f.kind = "video" }

C9_Cleanup == [](C9_AtEnd) /\ [][C9_AudioOnlyStep]_vars

\* an audio-only job ran the transcoder and ended beside a video file that an
\* earlier failed job left behind
C9_Witness ==
    /\ pc = "next"
    /\ audio_only
    /\ InEvents("spawn")
    /\ \E f \in disk : f.kind = "video"

\* C10: within a job the steps occur in the order resolve, download audio,
\* download video (unless audio-only), transcode, cleanup; the transcoder is
\* spawned only after every required download completed; while a line's job
\* runs every earlier line has already produced its outcome.
StepRank(e) ==
    CASE e = "call" -> 1
      [] e = "resolved" -> 2
      [] e = "audio start" -> 3
      [] e = "audio done" -> 4
      [] e = "video start" -> 5
      [] e = "video done" -> 6
      [] e = "spawn" -> 7
      [] e = "ffmpeg line" -> 8
      [] e = "remove video" -> 9
      [] e = "remove audio" -> 10
      [] e = "Process time" -> 11
      [] OTHER -> 12

C10_Serialized ==
    /\ \A i \in 1..(Len(events) - 1) :
         \/ StepRank(events[i]) < StepRank(events[i + 1])
         \/ (events[i] = "ffmpeg line" /\ events[i + 1] = "ffmpeg line")
    /\ InEvents("spawn")
          => /\ InEvents("resolved")
             /\ InEvents("audio done")
             /\ (~audio_only => InEvents("video done"))
    /\ InEvents("remove audio") => InEvents("spawn")
    /\ audio_only => ~InEvents("video start")
    /\ pc \in JobPcs => (Len(outcomes) = idx - 1 /\ idx >= 1)
    /\ pc = "read" => InEvents("spawn")
    /\ pc \in {"rm_video", "rm_audio"} => (proc.state = "exited" /\ proc.pending = 0)

\* the second line's audio-and-video job is cleaning up after the first
\* line's job has ended
C10_Witness ==
    /\ pc = "rm_audio"
    /\ idx = 2
    /\ ~audio_only
    /\ InEvents("remove video")

\* C11: the temporary paths of two distinct jobs never collide: while a job
\* holds its timestamp, no temporary file that another job left on disk
\* bears the same timestamp (and so the same name).
C11_NoTempCollision ==
    \A f \in disk :
        (pc \in JobPcs \ {"resolve"} /\ f.owner # idx) => f.ts # timestamp

\* C12: there is no retry: for one line each of resolve, audio download,
\* video download and transcoder spawn is attempted at most once, and an
\* error is the last thing the job does and ends it as a Failure.
Count(e) == Cardinality({ i \in 1..Len(events) : events[i] = e })

C12_NoRetry ==
    /\ \A e \in {"call", "resolved", "audio start", "video start", "spawn"} : Count(e) <= 1
    /\ \A i \in 1..Len(events) :
         events[i] \in Exceptions
           => /\ i = Len(events)
              /\ pc = "next"
              /\ Last(outcomes) = "Failure"

\* an audio download was attempted once, failed, and the job ended
C12_Witness ==
    /\ pc = "next"
    /\ events = <<"call", "resolved", "audio start", "DownloadError">>

\* C13: for every dispatched job, ended in success or in failure, the
\* duration of the call is logged once when the job ends.
C13_DurationLogged ==
    (pc = "next" /\ InEvents("call"))
        => (Count("Process time") = 1 /\ Last(outcomes) \in {"Success", "Failure"})

\* C14: a job whose listing has no audio-only stream ends as a Failure at
\* the selection, with no download started, no temporary file of its own on
\* disk and no transcoder spawned.
C14_NoAudioFails ==
    (yt.listed /\ yt.audio = <<>>)
        => /\ pc = "next"
           /\ Len(outcomes) = idx
           /\ Last(outcomes) = "Failure"
           /\ Last(events) \in Exceptions
           /\ ~InEvents("audio start")
           /\ ~InEvents("video start")
           /\ ~InEvents("spawn")
           /\ \A f \in disk : f.owner # idx
           /\ proc.state = "none"

\* the second line's video has no audio-only stream and its job has failed
C14_Witness ==
    /\ pc = "next"
    /\ idx = 2
    /\ yt.listed
    /\ yt.audio = <<>>
    /\ outcomes = <<"Success", "Failure">>

\* C15: of a non-empty listing of audio-only streams the selected one has the
\* highest numeric bitrate, and the -b:a argument of the transcoder is the
\* digits of its abr followed by "k"; 96kbps, 160kbps, 128kbps give 160k.
Kbps(n) == n \o <<"k", "b", "p", "s">>

C15_Example == << Kbps(<<"9", "6">>), Kbps(<<"1", "6", "0">>), Kbps(<<"1", "2", "8">>) >>

C15_HighestBitrate ==
    /\ (pc = "dl_audio" /\ yt.audio # <<>>)
          => /\ \E i \in 1..Len(yt.audio) : yt.audio[i] = job.audio_stream
             /\ \A i \in 1..Len(yt.audio) : AbrKey(yt.audio[i]) <= AbrKey(job.audio_stream)
             /\ yt.audio = C15_Example => job.audio_bitrate = <<"1", "6", "0", "k">>
    /\ pc \in {"dl_audio", "dl_video", "spawn", "read"}
          => /\ job.audio_stream \in Abrs
             /\ Kbps(SubSeq(job.audio_bitrate, 1, Len(job.audio_bitrate) - 1)) = job.audio_stream
             /\ Last(job.audio_bitrate) = "k"
    /\ pc = "read"
          => \E i \in 1..(Len(proc.args) - 1) :
                /\ proc.args[i] = <<"-b:a">>
                /\ proc.args[i + 1] = job.audio_bitrate

\* the listing of the example has been read and 160k selected
C15_Witness ==
    /\ pc = "dl_audio"
    /\ yt.audio = C15_Example
    /\ job.audio_bitrate = <<"1", "6", "0", "k">>

\* C16: the transcoder runs with exactly the argument list of the job's
\* mode, filled with the job's own temporary files, bitrate and output name:
\* the audio-and-video list with an output ending in .mkv, the audio-only
\* list with an output ending in .mp3, and the audio-only list exactly when
\* the line's audio flag was set.
C16_MuxArgs ==
    << <<"-y">>, <<"-i">>, <<"video_", ToString(timestamp), ".mp4">>,
       <<"-i">>, <<"audio_", ToString(timestamp), ".mp4">>,
       <<"-c:v">>, <<"hevc_nvenc">>, <<"-preset">>, <<"fast">>, <<"-profile:v">>, <<"main">>,
       <<"-c:a">>, <<"aac">>, <<"-b:a">>, job.audio_bitrate, job.output_filename >>

C16_AudioArgs ==
    << <<"-y">>, <<"-i">>, <<"audio_", ToString(timestamp), ".mp4">>,
       <<"-b:a">>, job.audio_bitrate, job.output_filename >>

C16_ExactArguments ==
    pc = "read"
        => /\ proc.state = "running"
           /\ proc.args[1] = FfmpegPath
           /\ Tail(proc.args) = IF audio_only THEN C16_AudioArgs ELSE C16_MuxArgs
           /\ Last(job.output_filename) = (IF audio_only THEN ".mp3" ELSE ".mkv")
           /\ job.audio_bitrate \in {<<"9", "6", "k">>, <<"1", "6", "0", "k">>,
                                     <<"1", "2", "8", "k">>}
           /\ \E f \in disk : f.kind = "audio" /\ f.ts = timestamp /\ f.owner = idx
           /\ ~audio_only
                 => \E f \in disk : f.kind = "video" /\ f.ts = timestamp /\ f.owner = idx

\* the transcoder of an audio-and-video job is running
C16_Witness ==
    /\ pc = "read"
    /\ ~audio_only
    /\ Len(proc.args) = 17
    /\ Last(proc.args) = <<"t", "_", "u", "_", "1", ".mkv">>

\* C17: a final output file is never overwritten: no transcoder runs with -y
\* on the output path of a file an earlier job produced.
C17_NeverOverwritten ==
    pc = "read" => Last(proc.args) \notin outputs

C19_SpawnFailed ==
    /\ InEvents("audio done")
    /\ ~InEvents("spawn")
    /\ Last(events) = "OSError"

C19_SpawnFailureLeavesInputs ==
    C19_SpawnFailed
        => /\ \E f \in disk : f.kind = "audio" /\ f.ts = timestamp /\ f.owner = idx
           /\ ~audio_only
                 => \E f \in disk : f.kind = "video" /\ f.ts = timestamp /\ f.owner = idx
           /\ Len(outcomes) = idx
           /\ Last(outcomes) = "Failure"
           /\ pc = "next"

\* the spawn for an audio-and-video job on the first line has raised
C19_Witness ==
    /\ C19_SpawnFailed
    /\ ~audio_only
    /\ idx = 1
    /\ numLines = 2
    /\ Cardinality(disk) = 2

\* C20: every temporary file on disk that belongs to a finished job belongs
\* to a job that ended in failure; a job that returned normally left none.
C20_LeftoversAreFromFailures ==
    \A f \in disk :
        /\ f.owner \in 1..idx
        /\ f.owner <= Len(outcomes) => outcomes[f.owner] = "Failure"

\* the batch is over: the first job failed and left a file, the second
\* succeeded
C20_Witness ==
    /\ pc = "done"
    /\ outcomes = <<"Failure", "Success">>
    /\ disk # {}

====
